---- MODULE Spec2Model ----
(***************************************************************************)
(* Model of the cog1 framebuffer module (src/cog1/framebuffer.js): the     *)
(* colour buffer, the z-buffer, the reset templates and the dirty          *)
(* rectangle, with one action per exported operation.                      *)
(*                                                                         *)
(* Representation.                                                         *)
(*  - A pixel p = y*width + x stands for the four bytes 4p..4p+3 of the    *)
(*    Uint8ClampedArray; framebuffer[p] is the tuple <<r,g,b,a>>.  Every   *)
(*    access of the code is 4-byte aligned, so nothing is lost.            *)
(*  - A depth is an exact rational <<n,d>> (d > 0, lowest terms).  The     *)
(*    inputs are small integers, which Float32 holds exactly; quotients    *)
(*    made by scaleZBuffer are kept exact.                                 *)
(*  - JavaScript's undefined is the string "undefined"; optional flags     *)
(*    are the strings "undefined", "true", "false".                        *)
(***************************************************************************)
EXTENDS Integers, Sequences, FiniteSets, TLC

\* ------------------------------------------------------------------ bounds
MaxW == 2
MaxH == 2
MaxCalls == 2
MaxFrameCalls == 4
MaxDebug == 1

\* --------------------------------------------------------- program constants
maxDistance == -10000

Undefined == "undefined"
Flags == {"undefined", "true", "false"}

\* ------------------------------------------------------------------ inputs
\* _bgColor arguments of init: <<>> stands for an omitted argument.
BgArgs == {<<>>, <<10, 20, 30>>}
\* What ctx.getImageData finds on the canvas before init (one colour all over).
PriorColors == {<<0, 0, 0, 0>>}
\* color.rgbaShaded arguments of set.
ShadedColors == {<<1, 2, 3, 4>>}
\* z arguments of set and zBufferTest.
ZValues == {5, -10}

\* --------------------------------------------------------------- rationals
RECURSIVE GCD(_, _)
GCD(a, b) == IF b = 0 THEN a ELSE GCD(b, a % b)

Abs(n) == IF n < 0 THEN -n ELSE n

Norm(n, d) ==
    LET s == IF d < 0 THEN -1 ELSE 1
        g == GCD(Abs(n), Abs(d))
    IN  <<(s * n) \div g, (s * d) \div g>>

Num(n) == <<n, 1>>
RSub(a, b) == Norm(a[1] * b[2] - b[1] * a[2], a[2] * b[2])
RLess(a, b) == a[1] * b[2] < b[1] * a[2]
RAbs(a) == <<Abs(a[1]), a[2]>>
\* a / b with b # 0, cancelling across before multiplying
RDiv(a, b) ==
    LET g1 == GCD(Abs(a[1]), Abs(b[1]))
        g2 == GCD(a[2], b[2])
        n1 == IF g1 = 0 THEN a[1] ELSE a[1] \div g1
        d1 == IF g1 = 0 THEN b[1] ELSE b[1] \div g1
    IN  Norm(n1 * (b[2] \div g2), (a[2] \div g2) * d1)

\* Store into a Uint8ClampedArray element (integer operand).
ToUint8Clamp(v) == IF v < 0 THEN 0 ELSE IF v > 255 THEN 255 ELSE v

VARIABLES
    initialized,    \* init has run
    width, height,  \* lines 18-19
    bgColor,        \* line 44
    framebuffer,    \* line 31: pixel -> <<r,g,b,a>>
    zBuf,           \* line 37: pixel -> depth
    resetBuffer32,  \* line 39: pixel -> the four bytes of its Uint32 word
    resetZBuffer,   \* line 40
    dirtyRect,      \* line 46
    last,           \* the most recent call: operation, arguments, result
    cleared,        \* what the most recent reset() returned
    fault,          \* exception raised by the most recent call, or "none"
    nCalls,         \* calls made since init
    nDebug          \* display calls made with the z-buffer debug flag on

vars == <<initialized, width, height, bgColor, framebuffer, zBuf, resetBuffer32,
          resetZBuffer, dirtyRect, last, cleared, fault, nCalls, nDebug>>

\* ------------------------------------------------------- call records
NoRect == [tag |-> "undefined", x |-> 0, y |-> 0, w |-> 0, h |-> 0]
Rect(x, y, w, h) == [tag |-> "rect", x |-> x, y |-> y, w |-> w, h |-> h]
RetBool(b) == [tag |-> IF b THEN "true" ELSE "false", x |-> 0, y |-> 0, w |-> 0, h |-> 0]

\* op: the operation; x, y, z, doZ, adj: its arguments; path: the exit taken;
\* ret: the value returned; put: the arguments of ctx.putImageData, if called.
Call(op, x, y, z, doZ, adj, path, ret, put) ==
    [op |-> op, x |-> x, y |-> y, z |-> z, doZ |-> doZ, adj |-> adj,
     path |-> path, ret |-> ret, put |-> put]

NoCall == Call("none", 0, 0, 0, Undefined, Undefined, "none", NoRect, NoRect)

Pixels == 0 .. (width * height - 1)

\* ------------------------------------------------------------ module load
Init ==
    /\ initialized = FALSE
    /\ width = 0
    /\ height = 0
    /\ bgColor = <<255, 255, 255, 255>>
    /\ framebuffer = <<>>
    /\ zBuf = <<>>
    /\ resetBuffer32 = <<>>
    /\ resetZBuffer = <<>>
    /\ dirtyRect = [x |-> Undefined, y |-> Undefined, xMax |-> Undefined,
                    yMax |-> Undefined, width |-> <<>>, height |-> <<>>]
    /\ last = NoCall
    /\ cleared = NoRect
    /\ fault = "none"
    /\ nCalls = 0
    /\ nDebug = 0


\* ------------------------------------------------------- reset templates
\* The bytes, in memory order, of the word (a << 24) | (b << 16) | (g << 8) | r
\* on a little-endian machine; the channels are bytes here.
bgcolor32(c) == <<c[1] % 256, c[2] % 256, c[3] % 256, c[4] % 256>>

\* initResetBuffer: the templates built from the colour c for n pixels.
initResetBuffer(c, n) ==
    [color |-> [i \in 0 .. (n - 1) |-> bgcolor32(c)],
     depth |-> [i \in 0 .. (n - 1) |-> Num(maxDistance)]]

\* ------------------------------------------------------- dirty rectangle
\* Mutant: reset() forgets to mark the rectangle empty.
resetDirtyRectKept(dr, w, h) == dr

resetDirtyRect(dr, w, h) ==
    [dr EXCEPT !.x = w - 1, !.y = h - 1, !.xMax = 0, !.yMax = 0]

setMaxDirtyRect(dr, w, h) ==
    [dr EXCEPT !.x = 0, !.y = 0, !.xMax = w - 1, !.yMax = h - 1]

\* Mutant: the min bounds are set to the point without being compared.
adjustDirtyRectangleNoMinTest(dr, x, y) ==
    LET dx == IF x > dr.xMax THEN [dr EXCEPT !.x = x, !.xMax = x]
              ELSE [dr EXCEPT !.x = x]
    IN  IF y > dx.yMax THEN [dx EXCEPT !.y = y, !.yMax = y]
        ELSE [dx EXCEPT !.y = y]

adjustDirtyRectangle(dr, x, y) ==
    LET dx == IF x < dr.x THEN [dr EXCEPT !.x = x]
              ELSE IF x > dr.xMax THEN [dr EXCEPT !.xMax = x]
              ELSE dr
    IN  IF y < dx.y THEN [dx EXCEPT !.y = y]
        ELSE IF y > dx.yMax THEN [dx EXCEPT !.yMax = y]
        ELSE dx

\* ------------------------------------------------------------ depth test
\* The result and the z-buffer after zBufferTest(x, y, z) on z-buffer zb of
\* a canvas w wide.  An index outside the typed array reads undefined, and
\* the store to it is dropped.
\* Mutant: the comparison without the bias of 10.
zBufferTestNoBias(zb, w, x, y, z) ==
    LET indexZBuf == y * w + x
    IN  IF indexZBuf \notin DOMAIN zb
        THEN [ret |-> TRUE, zBuf |-> zb]
        ELSE IF RLess(zb[indexZBuf], Num(z))
        THEN [ret |-> TRUE, zBuf |-> [zb EXCEPT ![indexZBuf] = Num(z)]]
        ELSE [ret |-> FALSE, zBuf |-> zb]

zBufferTest(zb, w, x, y, z) ==
    LET indexZBuf == y * w + x
    IN  IF indexZBuf \notin DOMAIN zb
        THEN [ret |-> TRUE, zBuf |-> zb]
        ELSE IF RLess(zb[indexZBuf], Num(z + 10))
        THEN [ret |-> TRUE, zBuf |-> [zb EXCEPT ![indexZBuf] = Num(z)]]
        ELSE [ret |-> FALSE, zBuf |-> zb]

\* ------------------------------------------------------------------ reset
\* new TypedArray(buffer, byteOffset, length) raises a RangeError unless the
\* view lies inside the buffer; off, len and size are counted in elements.
ViewInRange(off, len, size) == off >= 0 /\ off + len <= size

\* Mutant: the copy reaches one element further, the end index included.
BlockCopyInclusive(buf, tmpl, start, n) ==
    [p \in DOMAIN buf |->
        IF start <= p /\ p <= start + n THEN tmpl[p - start] ELSE buf[p]]

\* target.set(source) for a view of buf starting at start and a view of the
\* template starting at 0, both n elements long.
BlockCopy(buf, tmpl, start, n) ==
    [p \in DOMAIN buf |-> IF start <= p /\ p < start + n THEN tmpl[p - start] ELSE buf[p]]

dirtyStartIndex(dr, w) == dr.y * w + dr.x
dirtyEndIndex(dr, w) == dr.yMax * w + dr.xMax

\* Mutant: an empty span (end = start) counts as dirty.
resetBuffersEmptySpan(dr, w, zb, fb, tz, tc) ==
    LET start == dirtyStartIndex(dr, w)
        end == dirtyEndIndex(dr, w)
        n == end - start
        size == Cardinality(DOMAIN zb)
    IN  IF end >= start
        THEN IF ViewInRange(start, n, size) /\ ViewInRange(0, n, size)
             THEN [zBuf |-> BlockCopy(zb, tz, start, n),
                   framebuffer |-> BlockCopy(fb, tc, start, n),
                   ret |-> Rect(dr.x, dr.y, dr.xMax - dr.x + 1, dr.yMax - dr.y + 1),
                   fault |-> "none"]
             ELSE [zBuf |-> zb, framebuffer |-> fb, ret |-> NoRect, fault |-> "RangeError"]
        ELSE [zBuf |-> zb, framebuffer |-> fb, ret |-> NoRect, fault |-> "none"]

\* The buffers, the return value and the exception of reset(), before
\* resetDirtyRect.
resetBuffers(dr, w, zb, fb, tz, tc) ==
    LET start == dirtyStartIndex(dr, w)
        end == dirtyEndIndex(dr, w)
        n == end - start
        size == Cardinality(DOMAIN zb)
    IN  IF end > start
        THEN IF ViewInRange(start, n, size) /\ ViewInRange(0, n, size)
             THEN [zBuf |-> BlockCopy(zb, tz, start, n),
                   framebuffer |-> BlockCopy(fb, tc, start, n),
                   ret |-> Rect(dr.x, dr.y, dr.xMax - dr.x + 1, dr.yMax - dr.y + 1),
                   fault |-> "none"]
             ELSE [zBuf |-> zb, framebuffer |-> fb, ret |-> NoRect, fault |-> "RangeError"]
        ELSE [zBuf |-> zb, framebuffer |-> fb, ret |-> NoRect, fault |-> "none"]

\* ------------------------------------------------------------------- init
init(w, h, bgArg, prior) ==
    /\ ~initialized
    /\ LET bg == [i \in 1 .. 4 |->
                    IF bgArg = <<>> THEN bgColor[i]
                    ELSE IF i = 4 THEN 255
                    ELSE IF i <= Len(bgArg) THEN bgArg[i] ELSE bgColor[i]]
           size == w * h
           tmpl == initResetBuffer(bg, size)
           fb0 == [p \in 0 .. (size - 1) |-> prior]
           zb0 == [p \in 0 .. (size - 1) |-> Num(0)]
           dr0 == setMaxDirtyRect(dirtyRect, w, h)
           r == resetBuffers(dr0, w, zb0, fb0, tmpl.depth, tmpl.color)
       IN  /\ width' = w
           /\ height' = h
           /\ bgColor' = bg
           /\ resetBuffer32' = tmpl.color
           /\ resetZBuffer' = tmpl.depth
           /\ zBuf' = r.zBuf
           /\ framebuffer' = r.framebuffer
           /\ fault' = r.fault
           /\ dirtyRect' = IF r.fault = "none" THEN resetDirtyRect(dr0, w, h) ELSE dr0
           /\ cleared' = r.ret
           /\ last' = Call("init", 0, 0, 0, Undefined, Undefined, "done", NoRect, NoRect)
    /\ initialized' = TRUE
    /\ UNCHANGED <<nCalls, nDebug>>

\* -------------------------------------------------------------------- set
\* Mutant: an omitted flag counts as false.
IsOnGivenOnly(flag) == flag = "true"

IsOn(flag) == flag = "undefined" \/ flag = "true"

\* Mutant: the channels are stored in the order blue, green, red, alpha.
storeRGBAReversed(fb, index, rgba) ==
    IF index \in DOMAIN fb
    THEN [fb EXCEPT ![index] = <<ToUint8Clamp(rgba[3]), ToUint8Clamp(rgba[2]),
                                 ToUint8Clamp(rgba[1]), ToUint8Clamp(rgba[4])>>]
    ELSE fb

\* The four stores of rgba[0..3] into the bytes of pixel index.
storeRGBA(fb, index, rgba) ==
    IF index \in DOMAIN fb
    THEN [fb EXCEPT ![index] = <<ToUint8Clamp(rgba[1]), ToUint8Clamp(rgba[2]),
                                 ToUint8Clamp(rgba[3]), ToUint8Clamp(rgba[4])>>]
    ELSE fb

\* Mutant: the check against the right edge is missing.
OutOfCanvasNoRight(x, y, w, h) == x < 0 \/ y < 0 \/ y >= h

\* Mutant: the checks against the left and upper edges are missing.
OutOfCanvasNoLow(x, y, w, h) == x >= w \/ y >= h

\* Mutant: the check against the lower edge is missing.
OutOfCanvasNoBottom(x, y, w, h) == x < 0 \/ y < 0 \/ x >= w

OutOfCanvas(x, y, w, h) == x < 0 \/ y < 0 \/ x >= w \/ y >= h

set(x, y, z, color, doZBufferTest, adjustDirtyRect) ==
    /\ initialized
    /\ nCalls' = nCalls + 1
    /\ fault' = "none"
    /\ UNCHANGED <<initialized, width, height, bgColor, resetBuffer32, resetZBuffer, nDebug,
                   cleared>>
    /\ IF OutOfCanvas(x, y, width, height)
       THEN /\ last' = Call("set", x, y, z, doZBufferTest, adjustDirtyRect, "clipped",
                            NoRect, NoRect)
            /\ UNCHANGED <<framebuffer, zBuf, dirtyRect>>
       ELSE LET t == IF IsOn(doZBufferTest) THEN zBufferTest(zBuf, width, x, y, z)
                     ELSE [ret |-> TRUE, zBuf |-> zBuf]
                index == y * width + x
            IN  IF ~t.ret
                THEN /\ last' = Call("set", x, y, z, doZBufferTest, adjustDirtyRect,
                                     "rejected", NoRect, NoRect)
                     /\ UNCHANGED <<framebuffer, zBuf, dirtyRect>>
                ELSE /\ last' = Call("set", x, y, z, doZBufferTest, adjustDirtyRect,
                                     "written", NoRect, NoRect)
                     /\ zBuf' = t.zBuf
                     /\ dirtyRect' = IF IsOn(adjustDirtyRect)
                                     THEN adjustDirtyRectangle(dirtyRect, x, y)
                                     ELSE dirtyRect
                     /\ framebuffer' = storeRGBA(framebuffer, index, color)

\* The exported zBufferTest, called on its own.
depthTest(x, y, z) ==
    /\ initialized
    /\ nCalls' = nCalls + 1
    /\ fault' = "none"
    /\ LET t == zBufferTest(zBuf, width, x, y, z)
       IN  /\ zBuf' = t.zBuf
           /\ last' = Call("zBufferTest", x, y, z, Undefined, Undefined, "done",
                           RetBool(t.ret), NoRect)
    /\ UNCHANGED <<initialized, width, height, bgColor, resetBuffer32, resetZBuffer,
                   framebuffer, dirtyRect, nDebug, cleared>>

\* The exported adjustDirtyRectangle, called on its own ("Check of correct
\* the range must be done before": the caller passes canvas coordinates).
extend(x, y) ==
    /\ initialized
    /\ nCalls' = nCalls + 1
    /\ fault' = "none"
    /\ dirtyRect' = adjustDirtyRectangle(dirtyRect, x, y)
    /\ last' = Call("adjustDirtyRectangle", x, y, 0, Undefined, Undefined, "done",
                    NoRect, NoRect)
    /\ UNCHANGED <<initialized, width, height, bgColor, resetBuffer32, resetZBuffer,
                   framebuffer, zBuf, nDebug, cleared>>

reset ==
    /\ initialized
    /\ nCalls' = nCalls + 1
    /\ LET r == resetBuffers(dirtyRect, width, zBuf, framebuffer, resetZBuffer, resetBuffer32)
       IN  /\ zBuf' = r.zBuf
           /\ framebuffer' = r.framebuffer
           /\ fault' = r.fault
           /\ dirtyRect' = IF r.fault = "none"
                           THEN resetDirtyRect(dirtyRect, width, height)
                           ELSE dirtyRect
           /\ cleared' = r.ret
           /\ last' = Call("reset", 0, 0, 0, Undefined, Undefined, "done", r.ret, NoRect)
    /\ UNCHANGED <<initialized, width, height, bgColor, resetBuffer32, resetZBuffer, nDebug>>


\* ---------------------------------------------------------- scaleZBuffer
Sentinel == Num(maxDistance)

\* The first loop of scaleZBuffer from cell i on: <<min, max>> after the
\* last cell.
RECURSIVE ScanMinMax(_, _, _, _)
ScanMinMax(zb, i, min, max) ==
    IF i \notin DOMAIN zb THEN <<min, max>>
    ELSE IF zb[i] = Sentinel THEN ScanMinMax(zb, i + 1, min, max)
    ELSE IF RLess(max, zb[i]) THEN ScanMinMax(zb, i + 1, min, zb[i])
    ELSE IF RLess(zb[i], min) THEN ScanMinMax(zb, i + 1, zb[i], max)
    ELSE ScanMinMax(zb, i + 1, min, max)

\* Mutant: the second loop rescales the cells holding maxDistance too.
scaleZBufferNoSkip(zb) ==
    LET mm == ScanMinMax(zb, 0, Num(-maxDistance), Num(maxDistance))
        min == mm[1]
        max == mm[2]
        r0 == RAbs(RSub(max, min))
        range == IF r0 = Num(0) THEN Num(1) ELSE r0
    IN  [i \in DOMAIN zb |-> RDiv(RSub(zb[i], min), range)]

scaleZBuffer(zb) ==
    LET mm == ScanMinMax(zb, 0, Num(-maxDistance), Num(maxDistance))
        min == mm[1]
        max == mm[2]
        r0 == RAbs(RSub(max, min))
        range == IF r0 = Num(0) THEN Num(1) ELSE r0
    IN  [i \in DOMAIN zb |->
            IF zb[i] = Sentinel THEN zb[i] ELSE RDiv(RSub(zb[i], min), range)]

\* The byte a Uint8ClampedArray keeps for (1 - z) * 255.0: clamped to
\* [0, 255], rounded to the nearest integer, a tie to the even one.
\* 255 f = 256 f - f is built by eight doublings of f = m/d as k + r/d.
RECURSIVE Doubled(_, _, _, _)
Doubled(k, r, d, times) ==
    IF times = 0 THEN <<k, r>>
    ELSE Doubled(2 * k + (IF 2 * r >= d THEN 1 ELSE 0), (2 * r) % d, d, times - 1)

GreyByte(z) ==
    LET d == z[2]
        m == z[2] - z[1]
    IN  IF m <= 0 THEN 0
        ELSE IF m >= d THEN 255
        ELSE LET s == Doubled(0, m, d, 8)
                 k == IF s[2] >= m THEN s[1] ELSE s[1] - 1
                 r == IF s[2] >= m THEN s[2] - m ELSE s[2] - m + d
             IN  IF 2 * r < d THEN k
                 ELSE IF 2 * r > d THEN k + 1
                 ELSE IF k % 2 = 0 THEN k ELSE k + 1

\* MultiplyFramebufferWithZBuffer(true): the overlay loop over the scaled
\* z-buffer zs; an index outside the arrays reads undefined and its stores
\* are dropped.
MultiplyFramebufferWithZBuffer(dr, w, zs, fb) ==
    LET start == dirtyStartIndex(dr, w)
        end == dirtyEndIndex(dr, w)
    IN  [p \in DOMAIN fb |->
            IF start <= p /\ p < end /\ zs[p] # Sentinel
            THEN LET g == GreyByte(zs[p]) IN <<g, g, g, fb[p][4]>>
            ELSE fb[p]]

\* ---------------------------------------------------------------- display
\* dirtyRect.width and .height as display() leaves them, and its
\* putImageData request.  The two fields are undefined, <<>>, until the
\* first display() and hold a number, <<n>>, from then on.
displayRect(dr) ==
    LET w0 == dr.xMax - dr.x
        h0 == dr.yMax - dr.y
    IN  IF w0 < 0 \/ h0 < 0
        THEN [dirtyRect |-> [dr EXCEPT !.width = <<w0>>, !.height = <<h0>>], put |-> NoRect]
        ELSE [dirtyRect |-> [dr EXCEPT !.width = <<w0 + 1>>, !.height = <<h0 + 1>>],
              put |-> Rect(dr.x, dr.y, w0 + 1, h0 + 1)]

\* debug is what scene.getDebug_zBuffer() answers.
display(debug) ==
    /\ initialized
    /\ debug => nDebug < MaxDebug
    /\ nCalls' = nCalls + 1
    /\ nDebug' = IF debug THEN nDebug + 1 ELSE nDebug
    /\ fault' = "none"
    /\ IF debug
       THEN /\ zBuf' = scaleZBuffer(zBuf)
            /\ framebuffer' = MultiplyFramebufferWithZBuffer(dirtyRect, width, zBuf', framebuffer)
       ELSE UNCHANGED <<zBuf, framebuffer>>
    /\ LET d == displayRect(dirtyRect)
       IN  /\ dirtyRect' = d.dirtyRect
           /\ last' = Call("display", 0, 0, 0, Undefined, Undefined,
                           IF debug THEN "debug" ELSE "plain", NoRect, d.put)
    /\ UNCHANGED <<initialized, width, height, bgColor, resetBuffer32, resetZBuffer, cleared>>

\* ------------------------------------------------------------------- next
\* Coordinates handed to set and zBufferTest: every pixel of the canvas and
\* one point beyond each of its four sides.
Coords ==
    ((0 .. (width - 1)) \X (0 .. (height - 1)))
        \cup {<<-1, 0>>, <<width, 0>>, <<0, -1>>, <<0, height>>}

\* <<doZBufferTest, adjustDirtyRect>> as a caller passes them: both omitted,
\* or both given.
FlagPairs == {<<"undefined", "undefined">>} \cup ({"true", "false"} \X {"true", "false"})

\* The smallest and the largest canvas in each direction.
Canvases == {1, MaxW} \X {1, MaxH}

AnyInit ==
    \E c \in Canvases, bgArg \in BgArgs, prior \in PriorColors :
        init(c[1], c[2], bgArg, prior)

AnySet ==
    \E c \in Coords, z \in ZValues, color \in ShadedColors, f \in FlagPairs :
        set(c[1], c[2], z, color, f[1], f[2])

AnyDepthTest == \E c \in Coords, z \in ZValues : depthTest(c[1], c[2], z)

AnyExtend == \E x \in 0 .. (width - 1), y \in 0 .. (height - 1) : extend(x, y)

AnyDisplay == \E debug \in BOOLEAN : display(debug)

\* Any calls of the exported operations, in any order.
Next ==
    \/ AnyInit
    \/ nCalls < MaxCalls /\ AnySet
    \/ nCalls < MaxCalls /\ AnyDepthTest
    \/ nCalls < MaxCalls /\ AnyExtend
    \/ nCalls < MaxCalls /\ reset
    \/ nCalls < MaxCalls /\ AnyDisplay

Spec == Init /\ [][Next]_vars

\* The same calls on the canvas of scenario P6: 4 x 4, bgColor = [10,20,30].
ScenarioInit == \E prior \in PriorColors : init(4, 4, <<10, 20, 30>>, prior)

NextScenario ==
    \/ ScenarioInit
    \/ nCalls < MaxCalls /\ AnySet
    \/ nCalls < MaxCalls /\ AnyDepthTest
    \/ nCalls < MaxCalls /\ AnyExtend
    \/ nCalls < MaxCalls /\ reset
    \/ nCalls < MaxCalls /\ AnyDisplay

SpecScenario == Init /\ [][NextScenario]_vars

\* The frame loop of the rasterizer: a burst of set() calls with the default
\* flags, then reset(), then display(), and so on.
InBurst == last.op \in {"init", "set", "display"}

BurstSet ==
    /\ InBurst
    /\ \E c \in Coords, z \in ZValues, color \in ShadedColors :
          set(c[1], c[2], z, color, "undefined", "undefined")

FrameReset == InBurst /\ reset

FrameDisplay == last.op = "reset" /\ AnyDisplay

NextFrame ==
    \/ AnyInit
    \/ nCalls < MaxFrameCalls /\ BurstSet
    \/ nCalls < MaxFrameCalls /\ FrameReset
    \/ nCalls < MaxFrameCalls /\ FrameDisplay

SpecFrame == Init /\ [][NextFrame]_vars

\* The frame loop on the canvas of scenario P6.
NextScenarioFrame ==
    \/ ScenarioInit
    \/ nCalls < MaxFrameCalls /\ BurstSet
    \/ nCalls < MaxFrameCalls /\ FrameReset
    \/ nCalls < MaxFrameCalls /\ FrameDisplay

SpecScenarioFrame == Init /\ [][NextScenarioFrame]_vars

\* scaleZBuffer as a function of the z-buffer alone: the module as init
\* leaves it, with any depths a caller may have stored in the cells
\* (maxDistance itself, a depth in front of the camera, one behind it),
\* and scaleZBuffer applied to them.
DepthInputs == {maxDistance} \cup ZValues

InitScale ==
    \E c \in Canvases :
        LET size == c[1] * c[2]
            bg == <<255, 255, 255, 255>>
            tmpl == initResetBuffer(bg, size)
        IN  /\ initialized = TRUE
            /\ width = c[1]
            /\ height = c[2]
            /\ bgColor = bg
            /\ framebuffer = [p \in 0 .. (size - 1) |-> bg]
            /\ zBuf \in [0 .. (size - 1) -> {Num(v) : v \in DepthInputs}]
            /\ resetBuffer32 = tmpl.color
            /\ resetZBuffer = tmpl.depth
            /\ dirtyRect = [x |-> c[1] - 1, y |-> c[2] - 1, xMax |-> 0, yMax |-> 0,
                            width |-> <<>>, height |-> <<>>]
            /\ last = NoCall
            /\ cleared = NoRect
            /\ fault = "none"
            /\ nCalls = 0
            /\ nDebug = 0

scaleCall ==
    /\ initialized
    /\ nDebug < MaxDebug
    /\ nDebug' = nDebug + 1
    /\ zBuf' = scaleZBuffer(zBuf)
    /\ last' = Call("scaleZBuffer", 0, 0, 0, Undefined, Undefined, "done", NoRect, NoRect)
    /\ UNCHANGED <<initialized, width, height, bgColor, framebuffer, resetBuffer32,
                   resetZBuffer, dirtyRect, cleared, fault, nCalls>>

NextScale == scaleCall

SpecScale == InitScale /\ [][NextScale]_vars


\* =================================================================== claims
BgPixel == <<bgColor[1], bgColor[2], bgColor[3], 255>>

InCanvas(x, y) == 0 <= x /\ x < width /\ 0 <= y /\ y < height

IsEmptyRect(dr) ==
    dr.x = width - 1 /\ dr.y = height - 1 /\ dr.xMax = 0 /\ dr.yMax = 0

\* C1 (as claimed): when a set(x,y,z,color) with the default flags has written
\* the in-bounds pixel (x,y) and the next call is reset(), then after the
\* reset the colour at (x,y) is bgColor with alpha 255 and the depth at (x,y)
\* is maxDistance.
C1_RoundTripClear ==
    [][(/\ initialized
        /\ last.op = "set"
        /\ last.path = "written"
        /\ last.doZ \in {"undefined", "true"}
        /\ last.adj \in {"undefined", "true"}
        /\ InCanvas(last.x, last.y)
        /\ last'.op = "reset")
       => LET p == last.y * width + last.x
          IN  framebuffer'[p] = BgPixel /\ zBuf'[p] = <<maxDistance, 1>>]_vars

\* C2 (as claimed): on the 4x4 canvas with bgColor = [10,20,30], when
\* set(1,1,5,{shaded [1,2,3,4]}) is the first call after init and reset() the
\* second, reset() returns {x:1,y:1,w:1,h:1}, pixel (1,1) reads
\* (10,20,30,255) and the depth at (1,1) is maxDistance.
C2_ScenarioP6 ==
    [][(/\ initialized
        /\ width = 4 /\ height = 4
        /\ nCalls = 1
        /\ last = Call("set", 1, 1, 5, "undefined", "undefined", "written", NoRect, NoRect)
        /\ framebuffer[5] = <<1, 2, 3, 4>>
        /\ last'.op = "reset")
       => /\ last'.ret = Rect(1, 1, 1, 1)
          /\ framebuffer'[5] = <<10, 20, 30, 255>>
          /\ zBuf'[5] = <<maxDistance, 1>>]_vars

\* C3 (as claimed): right after init every pixel of the framebuffer is bgColor
\* with alpha 255 and every cell of the z-buffer is maxDistance, the last
\* pixel (width-1, height-1) included.
C3_InitClearsAll ==
    (initialized /\ last.op = "init")
        => \A p \in Pixels : framebuffer[p] = BgPixel /\ zBuf[p] = <<maxDistance, 1>>

\* C4: a set(x,y,...) with (x,y) outside [0,width) x [0,height) leaves the
\* framebuffer, the z-buffer and the dirty rectangle unchanged and raises no
\* error, whatever z, the colour and the two flags are.
C4_ClippedSetNoEffect ==
    [][(/\ initialized
        /\ last'.op = "set"
        /\ ~(0 <= last'.x /\ last'.x < width /\ 0 <= last'.y /\ last'.y < height))
       => /\ framebuffer' = framebuffer
          /\ zBuf' = zBuf
          /\ dirtyRect' = dirtyRect
          /\ fault' = "none"]_vars

\* A set() beyond the right edge has returned, on a canvas with a row below
\* the first.
C4_Witness ==
    /\ initialized
    /\ last.op = "set"
    /\ last.x = width /\ last.y = 0
    /\ height > 1
    /\ last.adj = "true" /\ last.doZ = "false"

\* C5 (as claimed): right after adjustDirtyRectangle(x,y) with in-range (x,y),
\* called on its own or by a set() that adjusts the rectangle, the rectangle
\* contains (x,y): x_min <= x <= xMax and y_min <= y <= yMax.
C5_DirtyRectCovers ==
    [][(/\ initialized
        /\ \/ last'.op = "adjustDirtyRectangle"
           \/ /\ last'.op = "set"
              /\ last'.path = "written"
              /\ last'.adj \in {"undefined", "true"}
        /\ InCanvas(last'.x, last'.y))
       => /\ dirtyRect'.x <= last'.x /\ last'.x <= dirtyRect'.xMax
          /\ dirtyRect'.y <= last'.y /\ last'.y <= dirtyRect'.yMax]_vars

\* C6: a set() or adjustDirtyRectangle() call never moves a bound of the
\* dirty rectangle inward: x and y do not increase, xMax and yMax do not
\* decrease.
C6_ExtendMonotonic ==
    [][(initialized /\ last'.op \in {"set", "adjustDirtyRectangle"})
       => /\ dirtyRect'.x <= dirtyRect.x
          /\ dirtyRect'.y <= dirtyRect.y
          /\ dirtyRect'.xMax >= dirtyRect.xMax
          /\ dirtyRect'.yMax >= dirtyRect.yMax]_vars

\* The second call was an extension that moved a bound of a rectangle the
\* first call had already moved.
C6_Witness ==
    /\ initialized
    /\ nCalls = 2
    /\ last.op \in {"set", "adjustDirtyRectangle"}
    /\ dirtyRect.x = 0 /\ dirtyRect.xMax = width - 1
    /\ width > 1

\* C7: after init, all four bounds of the dirty rectangle lie on the canvas:
\* x and xMax in [0, width-1], y and yMax in [0, height-1].
C7_DirtyRectInRange ==
    initialized
        => /\ 0 <= dirtyRect.x /\ dirtyRect.x <= width - 1
           /\ 0 <= dirtyRect.xMax /\ dirtyRect.xMax <= width - 1
           /\ 0 <= dirtyRect.y /\ dirtyRect.y <= height - 1
           /\ 0 <= dirtyRect.yMax /\ dirtyRect.yMax <= height - 1

\* A set() outside the canvas has returned while the rectangle reaches the
\* far corner of a canvas of more than one row and column.
C7_Witness ==
    /\ initialized
    /\ width > 1 /\ height > 1
    /\ last.op = "set" /\ last.path = "clipped"
    /\ dirtyRect.xMax = width - 1 /\ dirtyRect.yMax = height - 1

\* C8 (as claimed): in a frame, display() requests the presentation of
\* exactly the rectangle the frame's reset() returned, whenever reset()
\* returned one.
C8_DisplayPresentsResetRect ==
    (initialized /\ last.op = "display" /\ cleared.tag = "rect")
        => last.put = cleared

\* C8 (amended): in a frame, the display() that follows reset() requests no
\* presentation, whatever reset() returned; on a 1x1 canvas alone it
\* requests {x:0, y:0, w:1, h:1}.
C8_DisplayAfterReset ==
    (initialized /\ last.op = "display")
        => last.put = IF width = 1 /\ height = 1 THEN Rect(0, 0, 1, 1) ELSE NoRect

\* display() has returned in a frame whose reset() returned a rectangle.
C8_Witness ==
    /\ initialized
    /\ last.op = "display"
    /\ cleared.tag = "rect"
    /\ last.put = NoRect

\* C9 (as claimed): on every canvas, display() called while the dirty
\* rectangle is empty makes no putImageData call and raises no error.
C9_DisplayEmptyPresentsNothing ==
    [][(initialized /\ IsEmptyRect(dirtyRect) /\ last'.op = "display")
       => last'.put = NoRect /\ fault' = "none"]_vars

\* C10: zBufferTest(x,y,z) at a cell of the canvas returns true exactly when
\* the stored depth is less than z + 10; it then stores z in that cell and
\* otherwise leaves the z-buffer as it is; the framebuffer and the dirty
\* rectangle do not change.
C10_DepthTest ==
    [][(initialized /\ last'.op = "zBufferTest" /\ InCanvas(last'.x, last'.y))
       => LET p == last'.y * width + last'.x
              stored == zBuf[p]
              pass == stored[1] < (last'.z + 10) * stored[2]
          IN  /\ last'.ret.tag = (IF pass THEN "true" ELSE "false")
              /\ zBuf' = IF pass THEN [zBuf EXCEPT ![p] = <<last'.z, 1>>] ELSE zBuf
              /\ framebuffer' = framebuffer
              /\ dirtyRect' = dirtyRect]_vars

\* zBufferTest has rejected a fragment at a cell of the canvas that held a
\* depth a set() call had stored.
C10_Witness ==
    /\ initialized
    /\ last.op = "zBufferTest"
    /\ InCanvas(last.x, last.y)
    /\ last.ret.tag = "false"
    /\ zBuf[last.y * width + last.x] = <<5, 1>>

\* C11: every reset(), dirty or not, leaves the dirty rectangle empty
\* (x = width-1, y = height-1, xMax = 0, yMax = 0).  When
\* yMax*width + xMax > y*width + x held before the call it returns
\* {x, y, w: xMax-x+1, h: yMax-y+1} of the rectangle before the call;
\* otherwise it returns undefined and leaves the framebuffer and the
\* z-buffer as they were.
C11_ResetResult ==
    [][(initialized /\ last'.op = "reset")
       => /\ dirtyRect'.x = width - 1 /\ dirtyRect'.y = height - 1
          /\ dirtyRect'.xMax = 0 /\ dirtyRect'.yMax = 0
          /\ IF dirtyRect.yMax * width + dirtyRect.xMax > dirtyRect.y * width + dirtyRect.x
             THEN last'.ret = Rect(dirtyRect.x, dirtyRect.y,
                                   dirtyRect.xMax - dirtyRect.x + 1,
                                   dirtyRect.yMax - dirtyRect.y + 1)
             ELSE /\ last'.ret = NoRect
                  /\ framebuffer' = framebuffer
                  /\ zBuf' = zBuf]_vars

\* reset() has returned a rectangle two columns wide and left the dirty
\* rectangle empty.
C11_Witness ==
    /\ initialized
    /\ last.op = "reset"
    /\ last.ret.tag = "rect"
    /\ last.ret.w = 2
    /\ IsEmptyRect(dirtyRect)

\* C12: scaleZBuffer applied to a z-buffer whose every cell holds
\* maxDistance leaves every cell as it was (the range is taken as 1, nothing
\* is divided by zero, nothing is written).
C12_ScaleAllSentinel ==
    [][(/\ last'.op = "scaleZBuffer"
        /\ \A p \in DOMAIN zBuf : zBuf[p] = <<maxDistance, 1>>)
       => zBuf' = zBuf]_vars

\* scaleZBuffer has run over a z-buffer of four cells that all hold
\* maxDistance.
C12_Witness ==
    /\ last.op = "scaleZBuffer"
    /\ width * height = 4
    /\ \A p \in DOMAIN zBuf : zBuf[p] = <<maxDistance, 1>>

\* C13 (as claimed): when reset() finds the dirty rectangle non-empty and
\* returns {x, y, w, h}, then after the call every pixel of the inclusive
\* rectangle [x, x+w-1] x [y, y+h-1], the corner (xMax, yMax) included, has
\* the colour bgColor with alpha 255 and the depth maxDistance.
C13_ResetClearsReportedRect ==
    [][(initialized /\ last'.op = "reset" /\ last'.ret.tag = "rect")
       => \A px \in last'.ret.x .. (last'.ret.x + last'.ret.w - 1),
             py \in last'.ret.y .. (last'.ret.y + last'.ret.h - 1) :
               /\ framebuffer'[py * width + px] = BgPixel
               /\ zBuf'[py * width + px] = <<maxDistance, 1>>]_vars

\* C14 (as claimed): reset() clears the dirty rectangle only: every pixel
\* outside the inclusive rectangle [x, xMax] x [y, yMax] that the dirty
\* rectangle described before the call has the same colour and the same
\* depth after the call as before it.
C14_ResetKeepsOutside ==
    [][(initialized /\ last'.op = "reset")
       => \A px \in 0 .. (width - 1), py \in 0 .. (height - 1) :
             ~(/\ dirtyRect.x <= px /\ px <= dirtyRect.xMax
               /\ dirtyRect.y <= py /\ py <= dirtyRect.yMax)
             => /\ framebuffer'[py * width + px] = framebuffer[py * width + px]
                /\ zBuf'[py * width + px] = zBuf[py * width + px]]_vars

\* C15: linear-span clearing.  When reset() clears (yMax*width + xMax >
\* y*width + x before the call), it overwrites with bgColor, alpha 255, and
\* with maxDistance exactly the cells of the framebuffer and of the z-buffer
\* whose flattened index i satisfies y*width + x <= i < yMax*width + xMax,
\* the same indices in both buffers, and leaves every other cell of both
\* buffers as it was.
C15_LinearSpan ==
    [][(/\ initialized
        /\ last'.op = "reset"
        /\ dirtyRect.yMax * width + dirtyRect.xMax > dirtyRect.y * width + dirtyRect.x)
       => \A i \in 0 .. (width * height - 1) :
             IF /\ dirtyRect.y * width + dirtyRect.x <= i
                /\ i < dirtyRect.yMax * width + dirtyRect.xMax
             THEN framebuffer'[i] = BgPixel /\ zBuf'[i] = <<maxDistance, 1>>
             ELSE framebuffer'[i] = framebuffer[i] /\ zBuf'[i] = zBuf[i]]_vars

\* reset() has cleared a span and the pixel at the end index of the span,
\* the corner (xMax, yMax), still holds the colour and the depth a set()
\* gave it.
C15_Witness ==
    /\ initialized
    /\ last.op = "reset"
    /\ last.ret.tag = "rect"
    /\ LET e == (last.ret.y + last.ret.h - 1) * width + (last.ret.x + last.ret.w - 1)
       IN  /\ e > 0
           /\ framebuffer[e] = <<1, 2, 3, 4>>
           /\ zBuf[e] = <<5, 1>>
           /\ framebuffer[e - 1] = BgPixel

\* C16: a set(x,y,z,color) at a pixel of the canvas with doZBufferTest true
\* or omitted.  If the depth test fails (the stored depth is not less than
\* z + 10), the framebuffer, the z-buffer and the dirty rectangle stay as
\* they were.  If it passes, z becomes the depth of (x,y) and the four
\* shaded channels become the bytes R, G, B, A of (x,y), in that order; no
\* other pixel and no other depth cell changes.
C16_SetDepthTested ==
    [][(/\ initialized
        /\ last'.op = "set"
        /\ InCanvas(last'.x, last'.y)
        /\ last'.doZ \in {"undefined", "true"})
       => LET p == last'.y * width + last'.x
              stored == zBuf[p]
              pass == stored[1] < (last'.z + 10) * stored[2]
          IN  IF pass
              THEN /\ zBuf' = [zBuf EXCEPT ![p] = <<last'.z, 1>>]
                   /\ \E c \in ShadedColors :
                         framebuffer' = [framebuffer EXCEPT ![p] = <<c[1], c[2], c[3], c[4]>>]
              ELSE /\ framebuffer' = framebuffer
                   /\ zBuf' = zBuf
                   /\ dirtyRect' = dirtyRect]_vars

\* The second call was a depth-tested set() that wrote a pixel of the canvas
\* while another pixel keeps the depth the first call stored.
C16_Witness ==
    /\ initialized
    /\ nCalls = 2
    /\ last.op = "set" /\ last.doZ = "true" /\ last.path = "written"
    /\ last.z = -10
    /\ InCanvas(last.x, last.y)
    /\ zBuf[last.y * width + last.x] = <<-10, 1>>
    /\ framebuffer[last.y * width + last.x] = <<1, 2, 3, 4>>
    /\ \E q \in Pixels : q # last.y * width + last.x /\ zBuf[q] = <<5, 1>>

\* C17: the flags of a set() at a pixel (x,y) of the canvas.  With
\* doZBufferTest = false the colour is written whatever the stored depth is
\* and the z-buffer does not change.  With adjustDirtyRect = false the four
\* bounds of the dirty rectangle do not change.  An omitted flag acts as
\* the flag true does: the depth test decides the write and stores z, and a
\* write extends the dirty rectangle by (x,y).
C17_SetFlags ==
    [][(initialized /\ last'.op = "set" /\ InCanvas(last'.x, last'.y))
       => LET p == last'.y * width + last'.x
              stored == zBuf[p]
              pass == stored[1] < (last'.z + 10) * stored[2]
              tested == last'.doZ # "false"
              tracked == last'.adj # "false"
              written == ~tested \/ pass
              colour == CHOOSE c \in ShadedColors : TRUE
          IN  /\ framebuffer' = IF written
                                THEN [framebuffer EXCEPT ![p] = colour]
                                ELSE framebuffer
              /\ zBuf' = IF tested /\ pass
                         THEN [zBuf EXCEPT ![p] = <<last'.z, 1>>]
                         ELSE zBuf
              /\ dirtyRect' = IF tracked /\ written
                              THEN adjustDirtyRectangle(dirtyRect, last'.x, last'.y)
                              ELSE dirtyRect]_vars

\* A set() with both flags false has written the last pixel of the canvas
\* over a depth that a depth test would have kept, and neither the depth
\* nor the dirty rectangle has changed.
C17_Witness ==
    /\ initialized
    /\ nCalls = 1
    /\ last.op = "set" /\ last.doZ = "false" /\ last.adj = "false"
    /\ last.x = width - 1 /\ last.y = height - 1
    /\ last.z = -10
    /\ zBuf[width * height - 1] = <<0, 1>>
    /\ framebuffer[width * height - 1] = <<1, 2, 3, 4>>
    /\ IsEmptyRect(dirtyRect)

\* C18 (as claimed): after scaleZBuffer every cell that did not hold
\* maxDistance holds (value - min) / range, where min and max are the
\* smallest and the largest of the depths other than maxDistance and range
\* is max - min, or 1 when max = min; so it lies in [0, 1], whatever the
\* z-buffer held (a single such cell, ascending depths, ...).  The cells
\* holding maxDistance do not change.
C18_ScaleToUnitInterval ==
    [][(last'.op = "scaleZBuffer")
       => LET vals == {zBuf[q] : q \in DOMAIN zBuf} \ {<<maxDistance, 1>>}
          IN  \A p \in DOMAIN zBuf :
                 IF zBuf[p] = <<maxDistance, 1>>
                 THEN zBuf'[p] = zBuf[p]
                 ELSE LET min == CHOOSE v \in vals : \A u \in vals : ~RLess(u, v)
                          max == CHOOSE v \in vals : \A u \in vals : ~RLess(v, u)
                          d == RSub(max, min)
                          range == IF d = Num(0) THEN Num(1) ELSE d
                      IN  /\ zBuf'[p] = RDiv(RSub(zBuf[p], min), range)
                          /\ ~RLess(zBuf'[p], Num(0))
                          /\ ~RLess(Num(1), zBuf'[p])]_vars

\* C19: no operation faults.  In every state reached after init by set()
\* with any integer coordinates, adjustDirtyRectangle() with coordinates of
\* the canvas, reset() and display(), the index span
\* [y*width + x, yMax*width + xMax) that reset() copies and that the
\* z-buffer overlay of display() scans lies, when it is not empty, within
\* [0, width*height), and no call has raised an out-of-range error.
C19_SpanInBuffers ==
    initialized
        => /\ fault = "none"
           /\ (dirtyRect.yMax * width + dirtyRect.xMax > dirtyRect.y * width + dirtyRect.x)
                 => /\ 0 <= dirtyRect.y * width + dirtyRect.x
                    /\ dirtyRect.yMax * width + dirtyRect.xMax <= width * height

\* After two calls, the second an adjustDirtyRectangle(), the span is as
\* long as it can get: from index 0 up to the last pixel.
C19_Witness ==
    /\ initialized
    /\ nCalls = 2
    /\ width > 1 /\ height > 1
    /\ last.op = "adjustDirtyRectangle"
    /\ dirtyRect.y * width + dirtyRect.x = 0
    /\ dirtyRect.yMax * width + dirtyRect.xMax = width * height - 1

====
